---- MODULE Spec2Model ----
(***************************************************************************)
(* Model of the attendance engine of the University Attendance System:     *)
(*   - the day (clock-in / clock-out) handlers of api/routes/attendance.py *)
(*   - mark_student_attendance of services/attendance_service.py           *)
(*   - the verification decision of services/face_recognition.py           *)
(* Every request handler runs in its own database session: it first        *)
(* queries the attendance_records table, and later commits.  Handlers of   *)
(* different requests interleave between the query and the commit (the     *)
(* face handlers suspend at `await image.read()`, and the server may be    *)
(* started with several worker processes on one database).                 *)
(* Times of day are minutes since midnight, hours are hundredths of an     *)
(* hour, confidences are thousandths.                                      *)
(***************************************************************************)
EXTENDS Integers, Sequences, FiniteSets, Bags, TLC

\* ---------------------------------------------------------------- bounds
MaxInFlight == 2     \* request handlers between their query and their commit
MaxRecords == 2      \* rows ever inserted into attendance_records
MaxTime == 4         \* seconds the rate limiters are observed for

\* ------------------------------------------------------- program constants
LATE_THRESHOLD_MINUTES == 15
FACE_CONFIDENCE_THRESHOLD == 850
DefaultUserThreshold == 800
DefaultDurationMinutes == 60
FullDayMinutes == 480
OvertimeMinutes == 540
\* settings read by the day handlers but not set in config/settings.py
WORK_START_TIME == 540
WORK_END_TIME == 1020
EARLY_DEPARTURE_THRESHOLD_MINUTES == 30

\* RateLimitMiddleware(max_requests, window_seconds), scaled down from
\* 100 requests per 60 seconds
max_requests == 2
window_seconds == 2

\* ------------------------------------------------------------ value space
Users == {1, 2}
Clients == {"10.0.0.1", "10.0.0.2"}   \* request.client.host
Subjects == {1}      \* the users who send attendance events
SessionIds == {1, 3}
NoTime == -1
NoHours == 99999
NoConf == -1
NoThreshold == -1
NoneStr == "none"

\* instants of the day the clock steps through (minutes since midnight)
Instants == <<540, 900, 1081>>

\* similarities the matcher can return, in hundredths (cosine, -1 .. 1)
Similarities == {64, 70}
\* probabilities the classifier can return, in thousandths
Probabilities == {820, 850}

\* class probabilities predict_proba can return for one face, in thousandths
\* (each row sums to 1)
ProbaVectors ==
  { <<500, 500>>, <<510, 490>>, <<840, 160>>, <<850, 150>>, <<140, 860>>,
    <<450, 400, 150>>, <<100, 50, 850>> }
\* values FACE_CONFIDENCE_THRESHOLD is configured to (the default, and
\* overrides from the environment file)
Thresholds == {500, 800, 850}

DateTime(day, minute) == day * 1440 + minute

\* users table: user 1 is a student with the column default threshold,
\* user 2 is an administrator
UserRole(u) == IF u = 1 THEN "student" ELSE "admin"
IsAdmin(u) == u = 2
FaceConfidenceThresholdOf(u) == IF u = 1 THEN DefaultUserThreshold ELSE NoThreshold

\* class_sessions table: sessions 1 and 3 of course 1 start on day 1 at
\* 09:00; session 1 has the column defaults, session 3 is a seeded one
\* (is_active=False, is_completed=True)
SessionDate(s) == DateTime(1, 540)
SessionDuration(s) == DefaultDurationMinutes
is_active(s) == s # 3
is_completed(s) == s = 3
OpenSessionIds == {s \in SessionIds : is_active(s) /\ ~is_completed(s)}

NoRecord ==
  [id |-> 0, kind |-> NoneStr, subj |-> 0, occ |-> 0,
   check_in_time |-> NoTime, check_out_time |-> NoTime, total_hours |-> NoHours,
   status |-> "absent", check_in_method |-> NoneStr, check_out_method |-> NoneStr,
   face_confidence |-> NoConf, marked_at |-> NoTime]

NoLast ==
  [op |-> NoneStr, user |-> 0, occ |-> 0, result |-> NoneStr, mode |-> NoneStr,
   conf |-> NoConf]

\* no decision function has been called
NoCall == [fn |-> NoneStr]

\* self.cache = {}
NoCache == [timestamp |-> NoTime, data |-> << >>]

VARIABLES
  today,      \* date.today(): the current calendar day
  clock,      \* index into Instants: datetime.now().time()
  records,    \* rows of the attendance_records table
  nextId,     \* next primary key of attendance_records
  reqs,       \* bag of the requests between their query and their commit
  last,       \* the response returned by the step just taken, if any
  call,       \* the latest call of a decision function: its arguments and result
  cache,      \* AnalyticsService.cache: the entry of the one cache key in use
  requests,   \* RateLimitMiddleware.requests: client -> admitted timestamps kept
  current_time, \* time.time() / datetime.utcnow(), in seconds
  admitted,   \* history: client -> the times at which the middleware passed a request on
  limiter,    \* RateLimiter.requests: key -> request times kept
  allowed     \* history: key -> the times at which is_allowed returned True

middleware == <<requests, current_time, admitted, limiter, allowed>>
vars == <<today, clock, records, nextId, reqs, last, call, cache, middleware>>

\* a request can be taken up while fewer than MaxInFlight are in flight
CanAccept == BagCardinality(reqs) < MaxInFlight
InFlight(op) == {rq \in BagToSet(reqs) : rq.op = op}

Now == Instants[clock]

Init ==
  /\ today = 1
  /\ clock = 1
  /\ records = {}
  /\ nextId = 1
  /\ reqs = EmptyBag
  /\ last = NoLast
  /\ call = NoCall
  /\ cache = NoCache
  /\ requests = [ip \in {} |-> << >>]
  /\ current_time = 0
  /\ admitted = [ip \in Clients |-> << >>]
  /\ limiter = [key \in {} |-> << >>]
  /\ allowed = [key \in Clients |-> << >>]

\* ------------------------------------------------- pure decision logic
\* db.query(AttendanceRecord).filter(user_id == u, date == d)
Query(u, d) == {r \in records : r.kind = "day" /\ r.subj = u /\ r.occ = d}

\* db.query(AttendanceRecord).filter(student_id == u, session_id == s)
QuerySession(u, s) == {r \in records : r.kind = "session" /\ r.subj = u /\ r.occ = s}

\* .first(): no ORDER BY, so any matching row, or None when there is none
First(rows) == IF rows = {} THEN {NoRecord} ELSE rows

\* variant guard: only a record still in progress counts as checked in
AlreadyCheckedIn_mut(existing) ==
  existing.id # 0 /\ existing.check_in_time # NoTime /\ existing.check_out_time = NoTime
\* `existing_attendance and existing_attendance.check_in_time`
AlreadyCheckedIn(existing) == existing.id # 0 /\ existing.check_in_time # NoTime

\* variant guard: only a missing record counts as not checked in
NotCheckedIn_mut(attendance) == attendance.id = 0
\* `not attendance or not attendance.check_in_time`
NotCheckedIn(attendance) == attendance.id = 0 \/ attendance.check_in_time = NoTime

\* variant guard: only a biometric check-out counts as checked out
AlreadyCheckedOut_mut(attendance) ==
  attendance.check_out_time # NoTime /\ attendance.check_out_method = "face_recognition"
\* `attendance.check_out_time`
AlreadyCheckedOut(attendance) == attendance.check_out_time # NoTime

\* variant guard: a record below the confidence threshold does not count
AlreadyMarked_mut(existing) ==
  existing.id # 0 /\ existing.face_confidence >= FACE_CONFIDENCE_THRESHOLD
\* `if existing_attendance` of mark_student_attendance
AlreadyMarked(existing) == existing.id # 0

\* status of a check-in at time-of-day now
CheckInStatus(now) ==
  IF now > WORK_START_TIME + LATE_THRESHOLD_MINUTES THEN "late" ELSE "present"

\* round(minutes / 60, 2) in hundredths of an hour
RoundHours(minutes) == (10 * minutes + 3) \div 6

\* final status of a biometric check-out
FaceCheckOutStatus(minutes, now, oldStatus) ==
  IF minutes >= FullDayMinutes
    THEN (IF minutes > OvertimeMinutes THEN "overtime" ELSE "present")
    ELSE IF now < WORK_END_TIME - EARLY_DEPARTURE_THRESHOLD_MINUTES
           THEN "early_departure"
           ELSE oldStatus

\* final status of a manual check-out
ManualCheckOutStatus(minutes, oldStatus) ==
  IF minutes >= FullDayMinutes
    THEN (IF minutes > OvertimeMinutes THEN "overtime"
          ELSE IF oldStatus = "late" THEN oldStatus ELSE "present")
    ELSE oldStatus

\* variant: the boundary instant start + threshold counts as late
calculate_attendance_status_mut(marked, start, end) ==
  IF marked < start + LATE_THRESHOLD_MINUTES THEN "present" ELSE "late"
\* calculate_attendance_status(marked_time, session_start_time, session_end_time)
calculate_attendance_status(marked, start, end) ==
  IF marked <= start + LATE_THRESHOLD_MINUTES THEN "present"
  ELSE IF marked <= end THEN "late"
  ELSE "late"

\* confidence = (similarity + 1) / 2, similarity in hundredths -> thousandths
ConfidenceOf(similarity) == (similarity + 100) * 5

\* variant comparison: the operands the wrong way round
MeetsThreshold_mut(confidence, threshold) == threshold >= confidence
\* `confidence >= settings.FACE_CONFIDENCE_THRESHOLD`
MeetsThreshold(confidence, threshold) == confidence >= threshold

\* `is_match = confidence >= settings.FACE_CONFIDENCE_THRESHOLD` under the
\* configured threshold
is_match(similarity, threshold) == MeetsThreshold(ConfidenceOf(similarity), threshold)

\* np.max(prediction_proba)
MaxOf(prediction_proba) ==
  CHOOSE p \in {prediction_proba[i] : i \in DOMAIN prediction_proba} :
    \A i \in DOMAIN prediction_proba : prediction_proba[i] <= p

\* recognize_face: the decision on the class probabilities of the classifier
\* under the configured threshold
recognize_face(prediction_proba, threshold) ==
  [recognized |-> MeetsThreshold(MaxOf(prediction_proba), threshold),
   confidence |-> MaxOf(prediction_proba),
   threshold |-> threshold]

\* verify_face_against_user: the decision on a computed similarity
verify_face_against_user(similarity) ==
  [success |-> TRUE, accepted |-> is_match(similarity, FACE_CONFIDENCE_THRESHOLD),
   confidence |-> ConfidenceOf(similarity), mode |-> "verify"]

\* process_image / recognize_face: the decision on the classifier's probability
process_image(confidence) ==
  [success |-> TRUE, accepted |-> MeetsThreshold(confidence, FACE_CONFIDENCE_THRESHOLD),
   confidence |-> confidence, mode |-> "identify"]

\* no face detected, undecodable image, embedding failure
MatcherFailure(mode) ==
  [success |-> FALSE, accepted |-> FALSE, confidence |-> NoConf, mode |-> mode]

\* `if current_user.face_encoding:` verification against the registered
\* template, else identification; the template is registered and replaced by
\* the users routes, so a request finds it set or not
MatcherOutcomes(hasFaceEncoding) ==
  IF hasFaceEncoding
    THEN {verify_face_against_user(s) : s \in Similarities} \cup {MatcherFailure("verify")}
    ELSE {process_image(p) : p \in Probabilities} \cup {MatcherFailure("identify")}

\* ------------------------------------------------- persistence (ORM session)
\* flush of a loaded row: only attributes whose value differs from the
\* loaded one are written, by primary key
ApplyWrite(row, snap, new) ==
  [f \in DOMAIN row |->
     IF f \in DOMAIN new /\ new[f] # snap[f] THEN new[f] ELSE row[f]]

RowOf(id) == CHOOSE r \in records : r.id = id
RowExists(id) == \E r \in records : r.id = id

Resp(op, u, occ, result, mode, conf) ==
  [op |-> op, user |-> u, occ |-> occ, result |-> result, mode |-> mode, conf |-> conf]

\* a day handler between its query and its commit: today and now are read
\* first, snap is the row it loaded (NoRecord when there was none)
Pending(op, u, snap) ==
  [op |-> op, user |-> u, occ |-> today, now |-> Now, conf |-> NoConf, snap |-> snap]

\* a call of mark_student_attendance between its query and its commit
PendingMark(student, session, conf) ==
  [op |-> "mark_student_attendance", user |-> student, occ |-> session, now |-> NoTime,
   conf |-> conf, snap |-> NoRecord]

\* a handler ends at its query with an error response
Reject(op, u, occ, result) ==
  /\ last' = Resp(op, u, occ, result, NoneStr, NoConf)
  /\ UNCHANGED <<records, nextId, reqs>>

\* a handler passed its checks and goes on to its commit
Proceed(op, u, snap) ==
  /\ reqs' = reqs (+) SetToBag({Pending(op, u, snap)})
  /\ last' = NoLast
  /\ UNCHANGED <<records, nextId>>

\* variant: the confidence of the failed attempt is stored on the loaded row
Fail_mut(rq, result, mode, conf) ==
  /\ last' = Resp(rq.op, rq.user, rq.occ, result, mode, conf)
  /\ reqs' = reqs (-) SetToBag({rq})
  /\ records' = {IF r.id = rq.snap.id THEN [r EXCEPT !.face_confidence = conf] ELSE r :
                   r \in records}
  /\ UNCHANGED nextId
\* the handler of request rq ends with an error response and writes nothing
Fail(rq, result, mode, conf) ==
  /\ last' = Resp(rq.op, rq.user, rq.occ, result, mode, conf)
  /\ reqs' = reqs (-) SetToBag({rq})
  /\ UNCHANGED <<records, nextId>>

\* db.commit() of request rq: UPDATE of the loaded row with the assigned
\* attributes new, or INSERT of a row with the attributes key and new
Persist(rq, new, key, mode, conf) ==
  IF rq.snap.id # 0
    THEN IF RowExists(rq.snap.id)
           THEN /\ records' = (records \ {RowOf(rq.snap.id)})
                                \cup {ApplyWrite(RowOf(rq.snap.id), rq.snap, new)}
                /\ last' = Resp(rq.op, rq.user, rq.occ, "ok", mode, conf)
                /\ reqs' = reqs (-) SetToBag({rq})
                /\ UNCHANGED nextId
           ELSE \* the row was deleted meanwhile: StaleDataError, rollback, 500
                Fail(rq, "ServerError", mode, conf)
    ELSE /\ nextId <= MaxRecords
         /\ records' = records \cup
              {[f \in DOMAIN NoRecord |->
                  IF f \in DOMAIN new THEN new[f]
                  ELSE IF f \in DOMAIN key THEN key[f] ELSE NoRecord[f]]}
         /\ nextId' = nextId + 1
         /\ last' = Resp(rq.op, rq.user, rq.occ, "ok", mode, conf)
         /\ reqs' = reqs (-) SetToBag({rq})

\* ------------------------------------------------------ POST /check-in
face_check_in_query(u) ==
  /\ CanAccept
  /\ UNCHANGED <<today, clock, call, cache, middleware>>
  /\ \E existing \in First(Query(u, today)), imageOk \in BOOLEAN :
       IF AlreadyCheckedIn(existing)
         THEN Reject("face_check_in", u, today, "AlreadyCheckedIn")
       ELSE IF ~imageOk
         THEN Reject("face_check_in", u, today, "InvalidImage")
       ELSE Proceed("face_check_in", u, existing)

face_check_in_commit(rq) ==
  /\ rq \in InFlight("face_check_in")
  /\ UNCHANGED <<today, clock, call, cache, middleware>>
  /\ \E hasFaceEncoding \in BOOLEAN : \E m \in MatcherOutcomes(hasFaceEncoding) :
       IF ~m.success
         THEN Fail(rq, "MatcherError", m.mode, m.confidence)
       ELSE IF ~m.accepted
         THEN Fail(rq, "LowConfidence", m.mode, m.confidence)
       ELSE Persist(rq,
              [check_in_time |-> rq.now, status |-> CheckInStatus(rq.now),
               check_in_method |-> "face_recognition", face_confidence |-> m.confidence],
              [id |-> nextId, kind |-> "day", subj |-> rq.user, occ |-> rq.occ],
              m.mode, m.confidence)

\* ------------------------------------------------------ POST /check-out
face_check_out_query(u) ==
  /\ CanAccept
  /\ UNCHANGED <<today, clock, call, cache, middleware>>
  /\ \E attendance \in First(Query(u, today)), imageOk \in BOOLEAN :
       IF NotCheckedIn(attendance)
         THEN Reject("face_check_out", u, today, "NotCheckedIn")
       ELSE IF AlreadyCheckedOut(attendance)
         THEN Reject("face_check_out", u, today, "AlreadyCheckedOut")
       ELSE IF ~imageOk
         THEN Reject("face_check_out", u, today, "InvalidImage")
       ELSE Proceed("face_check_out", u, attendance)

face_check_out_commit(rq) ==
  /\ rq \in InFlight("face_check_out")
  /\ UNCHANGED <<today, clock, call, cache, middleware>>
  /\ LET minutes == rq.now - rq.snap.check_in_time
     IN
     \E hasFaceEncoding \in BOOLEAN : \E m \in MatcherOutcomes(hasFaceEncoding) :
       IF ~m.success \/ ~m.accepted
         THEN Fail(rq, IF m.success THEN "LowConfidence" ELSE "MatcherError",
                     m.mode, m.confidence)
       ELSE Persist(rq,
              [check_out_time |-> rq.now, total_hours |-> RoundHours(minutes),
               status |-> FaceCheckOutStatus(minutes, rq.now, rq.snap.status),
               check_out_method |-> "face_recognition"],
              [id |-> nextId], m.mode, m.confidence)

\* ------------------------------------------------ POST /manual-check-in
manual_check_in_query(u) ==
  /\ CanAccept
  /\ UNCHANGED <<today, clock, call, cache, middleware>>
  /\ \E existing \in First(Query(u, today)) :
       IF AlreadyCheckedIn(existing)
         THEN Reject("manual_check_in", u, today, "AlreadyCheckedIn")
       ELSE Proceed("manual_check_in", u, existing)

manual_check_in_commit(rq) ==
  /\ rq \in InFlight("manual_check_in")
  /\ UNCHANGED <<today, clock, call, cache, middleware>>
  /\ Persist(rq,
       [check_in_time |-> rq.now, status |-> CheckInStatus(rq.now),
        check_in_method |-> "manual"],
       [id |-> nextId, kind |-> "day", subj |-> rq.user, occ |-> rq.occ],
       "manual", NoConf)

\* ----------------------------------------------- POST /manual-check-out
manual_check_out_query(u) ==
  /\ CanAccept
  /\ UNCHANGED <<today, clock, call, cache, middleware>>
  /\ \E attendance \in First(Query(u, today)) :
       IF NotCheckedIn(attendance)
         THEN Reject("manual_check_out", u, today, "NotCheckedIn")
       ELSE IF AlreadyCheckedOut(attendance)
         THEN Reject("manual_check_out", u, today, "AlreadyCheckedOut")
       ELSE Proceed("manual_check_out", u, attendance)

manual_check_out_commit(rq) ==
  /\ rq \in InFlight("manual_check_out")
  /\ UNCHANGED <<today, clock, call, cache, middleware>>
  /\ LET minutes == rq.now - rq.snap.check_in_time
     IN
     Persist(rq,
       [check_out_time |-> rq.now, total_hours |-> RoundHours(minutes),
        check_out_method |-> "manual",
        status |-> ManualCheckOutStatus(minutes, rq.snap.status)],
       [id |-> nextId], "manual", NoConf)

\* ------------------------------ UniversityAttendanceService.mark_student_attendance
\* the queries of the session, the student and the existing record
mark_student_attendance_query(student_id, session_id, face_confidence) ==
  /\ CanAccept
  /\ UNCHANGED <<today, clock, call, cache, middleware>>
  /\ \E existing \in First(QuerySession(student_id, session_id)) :
       IF session_id \notin SessionIds
         THEN Reject("mark_student_attendance", student_id, session_id, "SessionNotFound")
       ELSE IF UserRole(student_id) # "student"
         THEN Reject("mark_student_attendance", student_id, session_id, "StudentNotFound")
       ELSE IF AlreadyMarked(existing)
         THEN Reject("mark_student_attendance", student_id, session_id, "AlreadyMarked")
       ELSE /\ reqs' = reqs (+) SetToBag({PendingMark(student_id, session_id, face_confidence)})
            /\ last' = NoLast
            /\ UNCHANGED <<records, nextId>>

\* now = datetime.now(), the status, db.add and db.commit
mark_student_attendance_commit(rq) ==
  /\ rq \in InFlight("mark_student_attendance")
  /\ UNCHANGED <<today, clock, call, cache, middleware>>
  /\ LET now == DateTime(today, Now)
         session_end == SessionDate(rq.occ) + SessionDuration(rq.occ)
     IN Persist(rq,
          [marked_at |-> now,
           status |-> calculate_attendance_status(now, SessionDate(rq.occ), session_end),
           face_confidence |-> rq.conf, check_in_method |-> "face_recognition"],
          [id |-> nextId, kind |-> "session", subj |-> rq.user, occ |-> rq.occ],
          "mark", rq.conf)

\* ------------------------------------------------ PUT /{attendance_id}
\* User.can_manage_attendance
can_manage_attendance(u) == UserRole(u) \in {"admin", "hr", "manager"} \/ IsAdmin(u)

\* the request bodies (AttendanceUpdate, fields left out are unset)
UpdateInputs ==
  { [status |-> "absent"],
    [check_in_time |-> NoTime],
    [check_out_time |-> Instants[1]] }

\* setattr of every field of the body, then the recalculation of total_hours
UpdatedRow(row, body) ==
  LET set == [f \in DOMAIN row |-> IF f \in DOMAIN body THEN body[f] ELSE row[f]]
  IN IF set.check_in_time # NoTime /\ set.check_out_time # NoTime
       THEN [set EXCEPT !.total_hours = RoundHours(set.check_out_time - set.check_in_time)]
       ELSE set

update_attendance(actor, attendance_id, body) ==
  /\ UNCHANGED <<today, clock, nextId, reqs, call, cache, middleware>>
  /\ IF ~can_manage_attendance(actor)
       THEN /\ last' = Resp("update_attendance", actor, attendance_id, "Forbidden", NoneStr, NoConf)
            /\ UNCHANGED records
     ELSE IF ~RowExists(attendance_id)
       THEN /\ last' = Resp("update_attendance", actor, attendance_id, "NotFound", NoneStr, NoConf)
            /\ UNCHANGED records
     ELSE /\ records' = (records \ {RowOf(attendance_id)})
                          \cup {UpdatedRow(RowOf(attendance_id), body)}
          /\ last' = Resp("update_attendance", actor, attendance_id, "ok", NoneStr, NoConf)

\* --------------------------------------------- DELETE /{attendance_id}
delete_attendance(actor, attendance_id) ==
  /\ UNCHANGED <<today, clock, nextId, reqs, call, cache, middleware>>
  /\ IF ~IsAdmin(actor)
       THEN /\ last' = Resp("delete_attendance", actor, attendance_id, "Forbidden", NoneStr, NoConf)
            /\ UNCHANGED records
     ELSE IF ~RowExists(attendance_id)
       THEN /\ last' = Resp("delete_attendance", actor, attendance_id, "NotFound", NoneStr, NoConf)
            /\ UNCHANGED records
     ELSE /\ records' = records \ {RowOf(attendance_id)}
          /\ last' = Resp("delete_attendance", actor, attendance_id, "ok", NoneStr, NoConf)

\* ------------------------------------------------------------- the clock
Tick ==
  /\ clock < Len(Instants)
  /\ clock' = clock + 1
  /\ last' = NoLast
  /\ UNCHANGED <<today, records, nextId, reqs, call, cache, middleware>>

\* the day handlers, any MaxInFlight of them between query and commit
Next ==
  \/ Tick
  \/ \E u \in Subjects : face_check_in_query(u)
  \/ \E rq \in BagToSet(reqs) : face_check_in_commit(rq)
  \/ \E u \in Subjects : face_check_out_query(u)
  \/ \E rq \in BagToSet(reqs) : face_check_out_commit(rq)
  \/ \E u \in Subjects : manual_check_in_query(u)
  \/ \E rq \in BagToSet(reqs) : manual_check_in_commit(rq)
  \/ \E u \in Subjects : manual_check_out_query(u)
  \/ \E rq \in BagToSet(reqs) : manual_check_out_commit(rq)

Spec == Init /\ [][Next]_vars

\* the day handlers one request at a time, and the record management routes
NextAdmin ==
  \/ Tick
  \/ reqs = EmptyBag /\ \E u \in Subjects : face_check_in_query(u)
  \/ \E rq \in BagToSet(reqs) : face_check_in_commit(rq)
  \/ reqs = EmptyBag /\ \E u \in Subjects : face_check_out_query(u)
  \/ \E rq \in BagToSet(reqs) : face_check_out_commit(rq)
  \/ reqs = EmptyBag /\ \E u \in Subjects : manual_check_in_query(u)
  \/ \E rq \in BagToSet(reqs) : manual_check_in_commit(rq)
  \/ reqs = EmptyBag /\ \E u \in Subjects : manual_check_out_query(u)
  \/ \E rq \in BagToSet(reqs) : manual_check_out_commit(rq)
  \/ \E actor \in Users, id \in 1 .. MaxRecords, body \in UpdateInputs :
        update_attendance(actor, id, body)
  \/ \E actor \in Users, id \in 1 .. MaxRecords : delete_attendance(actor, id)

SpecAdmin == Init /\ [][NextAdmin]_vars

\* session marking, any MaxInFlight calls between query and commit, and the
\* record management routes
NextSession ==
  \/ Tick
  \/ \E student \in Users, session \in OpenSessionIds \cup {2}, conf \in Probabilities :
        mark_student_attendance_query(student, session, conf)
  \/ \E rq \in BagToSet(reqs) : mark_student_attendance_commit(rq)
  \/ \E actor \in Users, id \in 1 .. MaxRecords, body \in UpdateInputs :
        update_attendance(actor, id, body)
  \/ \E actor \in Users, id \in 1 .. MaxRecords : delete_attendance(actor, id)

SpecSession == Init /\ [][NextSession]_vars

\* ------------------------------------------------ attendance read-outs
\* enrollments table: the students with an active enrollment in the course
\* of session s
Enrolled(s) == {u \in Users : UserRole(u) = "student"}

\* round(numerator / denominator * 100, 2), in hundredths of a percent
RatePercent(numerator, denominator) ==
  (20000 * numerator + denominator) \div (2 * denominator)

\* db.query(AttendanceRecord).filter(session_id == s)
SessionRecords(s) == {r \in records : r.kind = "session" /\ r.occ = s}

\* get_session_attendance: one line per enrolled student, from the stored
\* record or with status "absent" when there is none; nothing is written
get_session_attendance(session_id) ==
  /\ session_id \in SessionIds
  /\ UNCHANGED <<today, clock, records, nextId, reqs, last, cache, middleware>>
  /\ \E found \in [Enrolled(session_id) -> records \cup {NoRecord}] :
       /\ \A u \in Enrolled(session_id) : found[u] \in First(QuerySession(u, session_id))
       /\ call' = [fn |-> "get_session_attendance", session_id |-> session_id,
                   students |-> {[student_id |-> u, status |-> found[u].status] :
                                   u \in Enrolled(session_id)},
                   total_students |-> Cardinality(Enrolled(session_id)),
                   present_students |-> Cardinality(SessionRecords(session_id)),
                   absent_students |->
                     Cardinality(Enrolled(session_id))
                       - Cardinality(SessionRecords(session_id)),
                   attendance_rate |->
                     IF Cardinality(Enrolled(session_id)) > 0
                       THEN RatePercent(Cardinality(SessionRecords(session_id)),
                                        Cardinality(Enrolled(session_id)))
                       ELSE 0]

\* GET /today: the stored record of the day, or a transient AttendanceRecord
\* with status "absent" that is never added to the session
get_today_attendance(u) ==
  /\ UNCHANGED <<today, clock, records, nextId, reqs, last, cache, middleware>>
  /\ \E attendance \in First(Query(u, today)) :
       call' = [fn |-> "get_today_attendance", user_id |-> u,
                status |-> attendance.status, stored |-> attendance.id # 0]

\* marking and read-outs for every session of the table, the seeded closed
\* one included
NextClosed ==
  \/ Tick
  \/ \E student \in Users, session \in SessionIds \cup {2}, conf \in Probabilities :
        mark_student_attendance_query(student, session, conf)
  \/ \E rq \in BagToSet(reqs) : mark_student_attendance_commit(rq)
  \/ \E session \in SessionIds : get_session_attendance(session)
  \/ \E u \in Users : get_today_attendance(u)

SpecClosed == Init /\ [][NextClosed]_vars

\* ---------------------------------------------------------- rate limiting
\* variant: the limit is passed by one request before it applies
AtLimit_mut(count, limit) == count > limit
\* len(self.requests[client_ip]) >= self.max_requests
AtLimit(count, limit) == count >= limit

\* the timestamps of a list that are after cutoff
After(timestamps, cutoff) ==
  LET Recent(ts) == ts > cutoff IN SelectSeq(timestamps, Recent)

\* RateLimitMiddleware.dispatch of a request of client_ip
dispatch(client_ip) ==
  /\ UNCHANGED <<today, clock, records, nextId, reqs, last, cache, current_time,
                 limiter, allowed>>
  /\ LET cutoff_time == current_time - window_seconds
         cleaned == [ip \in {i \in DOMAIN requests :
                               \E k \in DOMAIN requests[i] : requests[i][k] > cutoff_time}
                       |-> requests[ip]]
         entered == [ip \in DOMAIN cleaned \cup {client_ip} |->
                       IF ip \in DOMAIN cleaned THEN cleaned[ip] ELSE << >>]
         pruned == [entered EXCEPT ![client_ip] = After(@, cutoff_time)]
     IN IF AtLimit(Len(pruned[client_ip]), max_requests)
          THEN /\ requests' = pruned
               /\ UNCHANGED admitted
               /\ call' = [fn |-> "dispatch", client |-> client_ip,
                           at |-> current_time, status |-> 429]
          ELSE /\ requests' = [pruned EXCEPT ![client_ip] = Append(@, current_time)]
               /\ admitted' = [admitted EXCEPT ![client_ip] = Append(@, current_time)]
               /\ call' = [fn |-> "dispatch", client |-> client_ip,
                           at |-> current_time, status |-> 200]

\* RateLimiter.is_allowed(key, limit, window)
is_allowed(key, limit, window) ==
  /\ UNCHANGED <<today, clock, records, nextId, reqs, last, cache, current_time,
                 requests, admitted>>
  /\ LET now == current_time
         entered == [k \in DOMAIN limiter \cup {key} |->
                       IF k \in DOMAIN limiter THEN limiter[k] ELSE << >>]
         kept == [entered EXCEPT ![key] = After(@, now - window)]
     IN IF ~AtLimit(Len(kept[key]), limit)
          THEN /\ limiter' = [kept EXCEPT ![key] = Append(@, now)]
               /\ allowed' = [allowed EXCEPT ![key] = Append(@, now)]
               /\ call' = [fn |-> "is_allowed", client |-> key, at |-> now, status |-> 200]
          ELSE /\ limiter' = kept
               /\ UNCHANGED allowed
               /\ call' = [fn |-> "is_allowed", client |-> key, at |-> now, status |-> 429]

\* a second passes
Elapse ==
  /\ current_time < MaxTime
  /\ current_time' = current_time + 1
  /\ UNCHANGED <<today, clock, records, nextId, reqs, last, call, cache,
                 requests, admitted, limiter, allowed>>

\* the two limiters are separate objects: a behaviour sends its requests
\* through one of them
NextLimiter ==
  \/ Elapse
  \/ DOMAIN limiter = {} /\ \E client_ip \in Clients : dispatch(client_ip)
  \/ DOMAIN requests = {} /\ \E key \in Clients :
                               is_allowed(key, max_requests, window_seconds)

SpecLimiter == Init /\ [][NextLimiter]_vars

\* ------------------------------------------------------------ analytics
\* self.cache_duration, in seconds
cache_duration == 300

\* timedelta.seconds: the seconds component of a non-negative timedelta,
\* its whole days left out
TimedeltaSeconds(delta) == delta % 86400

\* AnalyticsService._is_cache_valid, cached_time and now in seconds
is_cache_valid(cached_time, now) ==
  cached_time # NoTime /\ TimedeltaSeconds(now - cached_time) < cache_duration

\* max(n, 1)
AtLeastOne(n) == IF n > 1 THEN n ELSE 1

\* the records of the query of calculate_attendance_trends
TrendRecords(start_date, end_date) ==
  {r \in records : r.kind = "day" /\ r.occ >= start_date /\ r.occ <= end_date}

CountStatus(rows, statuses) == Cardinality({r \in rows : r.status \in statuses})

\* daily_stats and trends: one entry per date that has a record
TrendsOf(rows) ==
  [d \in {r.occ : r \in rows} |->
     LET day == {r \in rows : r.occ = d}
     IN [total_employees |-> Cardinality(day),
         present |-> CountStatus(day, {"present"}),
         late |-> CountStatus(day, {"late"}),
         absent |-> CountStatus(day, {"absent"}),
         overtime |-> CountStatus(day, {"overtime"}),
         attendance_rate |->
           RatePercent(CountStatus(day, {"present", "late", "overtime"}),
                       AtLeastOne(Cardinality(day)))]]

\* the now of the analytics service, in seconds
NowSeconds == DateTime(today, Now) * 60

\* AnalyticsService.calculate_attendance_trends(start_date, end_date)
calculate_attendance_trends(start_date, end_date) ==
  /\ UNCHANGED <<today, clock, records, nextId, reqs, last, middleware>>
  /\ IF is_cache_valid(cache.timestamp, NowSeconds)
       THEN /\ call' = [fn |-> "calculate_attendance_trends", at |-> NowSeconds,
                        cached |-> TRUE, data |-> cache.data]
            /\ UNCHANGED cache
       ELSE /\ call' = [fn |-> "calculate_attendance_trends", at |-> NowSeconds,
                        cached |-> FALSE,
                        data |-> [trends |-> TrendsOf(TrendRecords(start_date, end_date)),
                                  total_records |->
                                    Cardinality(TrendRecords(start_date, end_date))]]
            /\ cache' = [timestamp |-> NowSeconds,
                         data |-> [trends |-> TrendsOf(TrendRecords(start_date, end_date)),
                                   total_records |->
                                     Cardinality(TrendRecords(start_date, end_date))]]

\* GET /monthly-stats of user u
get_monthly_stats(u) ==
  /\ UNCHANGED <<today, clock, records, nextId, reqs, last, cache, middleware>>
  /\ LET monthly_records == {r \in records : r.kind = "day" /\ r.subj = u}
         present_days == CountStatus(monthly_records, {"present", "late", "overtime"})
     IN call' = [fn |-> "get_monthly_stats", user_id |-> u,
                 total_days |-> Cardinality(monthly_records),
                 present_days |-> present_days,
                 absent_days |-> CountStatus(monthly_records, {"absent"}),
                 attendance_rate |->
                   RatePercent(present_days, AtLeastOne(Cardinality(monthly_records)))]

\* the statuses a correction puts on a record
AnalyticsUpdates == { [status |-> "half_day"], [status |-> "absent"] }

\* manual check-in and check-out one request at a time, corrections, and
\* the two aggregations
NextAnalytics ==
  \/ Tick
  \/ reqs = EmptyBag /\ \E u \in Subjects : manual_check_in_query(u)
  \/ \E rq \in BagToSet(reqs) : manual_check_in_commit(rq)
  \/ reqs = EmptyBag /\ \E u \in Subjects : manual_check_out_query(u)
  \/ \E rq \in BagToSet(reqs) : manual_check_out_commit(rq)
  \/ \E actor \in Users, id \in 1 .. MaxRecords, body \in AnalyticsUpdates :
        update_attendance(actor, id, body)
  \/ calculate_attendance_trends(today, today)
  \/ \E u \in Users : get_monthly_stats(u)

SpecAnalytics == Init /\ [][NextAnalytics]_vars

\* ------------------------------------- the decision functions on their own
\* a decision function is called with arguments and returns; no row changes

\* recognize_face on the probabilities of one face, under the configured
\* threshold and under another configuration of it
recognize_face_call ==
  /\ UNCHANGED <<today, clock, records, nextId, reqs, last, cache, middleware>>
  /\ \E prediction_proba \in ProbaVectors, threshold \in Thresholds, other \in Thresholds :
       call' = [fn |-> "recognize_face", prediction_proba |-> prediction_proba,
                threshold |-> threshold, other |-> other,
                accepted |-> recognize_face(prediction_proba, threshold).recognized,
                acceptedOther |-> recognize_face(prediction_proba, other).recognized]

\* verify_face_against_user on one similarity, under the configured threshold
\* and under another configuration of it
verify_face_against_user_call ==
  /\ UNCHANGED <<today, clock, records, nextId, reqs, last, cache, middleware>>
  /\ \E similarity \in Similarities, threshold \in Thresholds, other \in Thresholds :
       call' = [fn |-> "verify_face_against_user", similarity |-> similarity,
                threshold |-> threshold, other |-> other,
                accepted |-> is_match(similarity, threshold),
                acceptedOther |-> is_match(similarity, other)]

\* minutes after the session start at which a marking arrives
MarkOffsets == {-5, 0, 10, 15, 16, 20, 60, 61, 90}

\* calculate_attendance_status as mark_student_attendance calls it
calculate_attendance_status_call ==
  /\ UNCHANGED <<today, clock, records, nextId, reqs, last, cache, middleware>>
  /\ \E session_id \in SessionIds, offset \in MarkOffsets :
       LET start == SessionDate(session_id)
           end == start + SessionDuration(session_id)
       IN call' = [fn |-> "calculate_attendance_status",
                   marked_time |-> start + offset,
                   session_start_time |-> start, session_end_time |-> end,
                   status |-> calculate_attendance_status(start + offset, start, end)]

\* times of day of a check-in and of a check-out (minutes since midnight)
CheckInTimes == {480, 540, 555, 560}
CheckOutTimes == {720, 990, 1050, 1110}

\* the default of calculate_overtime_hours' standard_hours (8.0), in minutes
StandardHours == 480

\* calculate_overtime_hours(check_in, check_out, standard_hours), in minutes
calculate_overtime_hours(check_in, check_out, standard) ==
  IF check_in = NoTime \/ check_out = NoTime
    THEN 0
    ELSE LET total == IF check_out < check_in
                        THEN check_out + 1440 - check_in
                        ELSE check_out - check_in
         IN IF total - standard > 0 THEN total - standard ELSE 0

\* times of day an update can put into check_out_time
UpdateTimes == {60, 540, 1050}

calculate_overtime_hours_call ==
  /\ UNCHANGED <<today, clock, records, nextId, reqs, last, cache, middleware>>
  /\ \E check_in_time \in CheckInTimes, check_out_time \in UpdateTimes :
       call' = [fn |-> "calculate_overtime_hours", check_in_time |-> check_in_time,
                check_out_time |-> check_out_time,
                overtime |-> calculate_overtime_hours(check_in_time, check_out_time,
                                                      StandardHours)]

\* the total_hours update_attendance stores when the body sets check_out_time
\* on a checked-in row
update_attendance_hours_call ==
  /\ UNCHANGED <<today, clock, records, nextId, reqs, last, cache, middleware>>
  /\ \E check_in_time \in CheckInTimes, check_out_time \in UpdateTimes :
       call' = [fn |-> "update_attendance", check_in_time |-> check_in_time,
                check_out_time |-> check_out_time,
                total_hours |->
                  UpdatedRow([NoRecord EXCEPT !.id = 1, !.check_in_time = check_in_time],
                             [check_out_time |-> check_out_time]).total_hours]

\* the status face_check_out stores for a day checked in by face_check_in
face_check_out_status_call ==
  /\ UNCHANGED <<today, clock, records, nextId, reqs, last, cache, middleware>>
  /\ \E check_in_time \in CheckInTimes, now \in CheckOutTimes :
       call' = [fn |-> "face_check_out", check_in_time |-> check_in_time,
                check_out_time |-> now,
                total_hours |-> RoundHours(now - check_in_time),
                status |-> FaceCheckOutStatus(now - check_in_time, now,
                                              CheckInStatus(check_in_time))]

\* work_schedules table: schedule 1 has the column defaults, schedule 2 is
\* a cohort configured with a 30 minute late threshold and 10h overtime
\* threshold (minutes)
WorkSchedules ==
  { [id |-> 1, late_threshold |-> 15, overtime_threshold |-> 480],
    [id |-> 2, late_threshold |-> 30, overtime_threshold |-> 600] }

\* the status face_check_in and manual_check_in give a check-in of a user
\* whose work schedule is schedule: the schedule is not read
check_in_status_call ==
  /\ UNCHANGED <<today, clock, records, nextId, reqs, last, cache, middleware>>
  /\ \E schedule \in WorkSchedules, now \in CheckInTimes :
       call' = [fn |-> "face_check_in", schedule |-> schedule, check_in_time |-> now,
                status |-> CheckInStatus(now)]

\* the two check-out routes and the statuses a checked-in record can hold
\* when it is checked out (the one check-in stored, or one an update set)
CheckOutMethods == {"face_recognition", "manual"}
StoredStatuses == {"present", "late"}

\* final status by route
CheckOutStatus(method, minutes, now, oldStatus) ==
  IF method = "face_recognition"
    THEN FaceCheckOutStatus(minutes, now, oldStatus)
    ELSE ManualCheckOutStatus(minutes, oldStatus)

\* two check-outs of records with the same check-in time at the same time
\* of day, each by its own route and from its own stored status
check_out_pair_call ==
  /\ UNCHANGED <<today, clock, records, nextId, reqs, last, cache, middleware>>
  /\ \E check_in_time \in CheckInTimes, now \in CheckOutTimes,
        methodA \in CheckOutMethods, methodB \in CheckOutMethods,
        beforeA \in StoredStatuses, beforeB \in StoredStatuses :
       call' = [fn |-> "check_out_pair", check_in_time |-> check_in_time,
                check_out_time |-> now,
                methodA |-> methodA, methodB |-> methodB,
                beforeA |-> beforeA, beforeB |-> beforeB,
                hoursA |-> RoundHours(now - check_in_time),
                hoursB |-> RoundHours(now - check_in_time),
                statusA |-> CheckOutStatus(methodA, now - check_in_time, now, beforeA),
                statusB |-> CheckOutStatus(methodB, now - check_in_time, now, beforeB)]

\* ages of a cache entry, in seconds
CacheAges == {0, 299, 300, 301, 86399, 86400, 86410, 86700}

\* _is_cache_valid for an entry stored at time 0 and read at the given age
is_cache_valid_call ==
  /\ UNCHANGED <<today, clock, records, nextId, reqs, last, cache, middleware>>
  /\ \E age \in CacheAges :
       call' = [fn |-> "_is_cache_valid", cached_time |-> 0, now |-> age,
                valid |-> is_cache_valid(0, age)]

\* analytics of one course as get_course_attendance_analytics returns them:
\* the rate of its student, its overall rate and the rates of its last two
\* weekly trend periods, in percent
CourseAnalytics ==
  { [student_rate |-> sr, overall_rate |-> o, previous_rate |-> pr, current_rate |-> cr] :
      sr \in {40, 80}, o \in {55, 90}, pr \in {50, 90}, cr \in {50, 90} }

\* the delta configured for the declining trend, in percentage points
DecliningDeltas == {5, 20}

\* get_attendance_alerts for one active course
get_attendance_alerts(analytics) ==
  [chronic_absentees |-> IF analytics.student_rate < 50 THEN {1} ELSE {},
   declining_attendance |-> {},
   course_alerts |-> IF analytics.overall_rate < 60 THEN {1} ELSE {}]

get_attendance_alerts_call ==
  /\ UNCHANGED <<today, clock, records, nextId, reqs, last, cache, middleware>>
  /\ \E analytics \in CourseAnalytics, delta \in DecliningDeltas :
       call' = [fn |-> "get_attendance_alerts", analytics |-> analytics, delta |-> delta,
                alerts |-> get_attendance_alerts(analytics)]

\* sorted(absence_dates) of one user: the dates of the absent records in
\* the window, one per record, so a date with two records appears twice
MaxAbsences == 4
WindowDays == 1 .. 5
SortedAbsenceDates ==
  UNION { {sd \in [1 .. n -> WindowDays] : \A i \in 1 .. n - 1 : sd[i] <= sd[i + 1]} :
            n \in 1 .. MaxAbsences }

\* the loop over sorted_dates from index i on, with the counters so far
RECURSIVE ConsecutiveLoop(_, _, _, _)
ConsecutiveLoop(sorted_dates, i, consecutive_count, max_consecutive) ==
  IF i > Len(sorted_dates)
    THEN max_consecutive
    ELSE IF sorted_dates[i] - sorted_dates[i - 1] = 1
           THEN ConsecutiveLoop(sorted_dates, i + 1, consecutive_count + 1,
                                IF consecutive_count + 1 > max_consecutive
                                  THEN consecutive_count + 1 ELSE max_consecutive)
           ELSE ConsecutiveLoop(sorted_dates, i + 1, 1, max_consecutive)

\* max_consecutive of analyze_absenteeism_patterns
MaxConsecutive(sorted_dates) == ConsecutiveLoop(sorted_dates, 2, 1, 1)

analyze_absenteeism_patterns_call ==
  /\ UNCHANGED <<today, clock, records, nextId, reqs, last, cache, middleware>>
  /\ \E sorted_dates \in SortedAbsenceDates :
       call' = [fn |-> "analyze_absenteeism_patterns", sorted_dates |-> sorted_dates,
                flagged |-> MaxConsecutive(sorted_dates) >= 3,
                max_consecutive_days |-> MaxConsecutive(sorted_dates)]

\* the identification branch of face_check_in for a current user without a
\* face encoding: the classes of the classifier are the enrolled persons,
\* prediction is the class of the best score, and the check-in goes on
\* when recognition["recognized"] holds
face_check_in_identify_call ==
  /\ UNCHANGED <<today, clock, records, nextId, reqs, last, cache, middleware>>
  /\ \E current_user \in Users, prediction_proba \in ProbaVectors :
       \E prediction \in {i \in DOMAIN prediction_proba :
                            prediction_proba[i] = MaxOf(prediction_proba)} :
         call' = [fn |-> "face_check_in_identify", current_user |-> current_user,
                  name |-> prediction,
                  confidence |-> MaxOf(prediction_proba),
                  checked_in |->
                    recognize_face(prediction_proba, FACE_CONFIDENCE_THRESHOLD).recognized]

NextFunctions ==
  \/ recognize_face_call
  \/ verify_face_against_user_call
  \/ calculate_attendance_status_call
  \/ face_check_out_status_call
  \/ calculate_overtime_hours_call
  \/ update_attendance_hours_call
  \/ check_in_status_call
  \/ check_out_pair_call
  \/ is_cache_valid_call
  \/ get_attendance_alerts_call
  \/ analyze_absenteeism_patterns_call
  \/ face_check_in_identify_call

SpecFunctions == Init /\ [][NextFunctions]_vars

\* ============================================================ properties
CheckInOps == {"face_check_in", "manual_check_in"}
CheckOutOps == {"face_check_out", "manual_check_out"}
MarkOps == {"mark_student_attendance"}

\* this step is the arrival of an event of one of ops for (u, occ): the
\* handler answered it at its query, or took it up for its commit
Arrival(ops, u, occ) ==
  \/ /\ reqs' = reqs
     /\ last' # NoLast
     /\ last'.op \in ops /\ last'.user = u /\ last'.occ = occ
  \/ \E rq \in BagToSet(reqs') :
       /\ rq.op \in ops /\ rq.user = u /\ rq.occ = occ
       /\ CopiesIn(rq, reqs') > CopiesIn(rq, reqs)

\* this step is the commit of the in-flight request rq
Committed(rq) ==
  /\ CopiesIn(rq, reqs') < CopiesIn(rq, reqs)
  /\ last'.op = rq.op /\ last'.user = rq.user /\ last'.occ = rq.occ

\* the arrival is turned away with the given error and nothing is written
RejectedWith(result) ==
  /\ last'.result = result
  /\ records' = records
  /\ reqs' = reqs

\* lifecycle state of (u, day), read off all its rows
CheckedIn(u, d) ==
  Query(u, d) # {} /\ \A r \in Query(u, d) : r.check_in_time # NoTime
Unmarked(u, d) ==
  \A r \in Query(u, d) : r.check_in_time = NoTime
Completed(u, d) ==
  /\ Query(u, d) # {}
  /\ \A r \in Query(u, d) : r.check_in_time # NoTime /\ r.check_out_time # NoTime

\* C1: for every (subject, occasion) pair at most one AttendanceRecord
\* exists, whatever the interleaving of the marking attempts.
C1_Uniqueness ==
  \A r1, r2 \in records :
    (r1.kind = r2.kind /\ r1.subj = r2.subj /\ r1.occ = r2.occ) => r1.id = r2.id

\* C2: a marking event that arrives for a (student, session) that has a
\* stored record is rejected as already marked, whatever its confidence,
\* and leaves every stored record unchanged.
C2_SecondMarkRejected ==
  [][\A u \in Users, s \in SessionIds :
       (QuerySession(u, s) # {} /\ Arrival(MarkOps, u, s))
         => RejectedWith("AlreadyMarked")]_vars

C2_Witness ==
  /\ last.op \in MarkOps
  /\ last.result = "AlreadyMarked"
  /\ \E r \in QuerySession(last.user, last.occ) : r.face_confidence < FACE_CONFIDENCE_THRESHOLD

\* C3: a check-in (biometric or manual) that arrives while the subject's
\* record of the day is InProgress or Completed is rejected as already
\* checked in and changes no field of any record.
C3_CheckInRejected ==
  [][\A u \in Subjects :
       (CheckedIn(u, today) /\ Arrival(CheckInOps, u, today))
         => RejectedWith("AlreadyCheckedIn")]_vars

C3_Witness ==
  /\ last.op \in CheckInOps
  /\ last.result = "AlreadyCheckedIn"
  /\ Completed(last.user, last.occ)

\* C4: a check-out (biometric or manual) that arrives while the subject is
\* Unmarked for the day (no record, or a record without check-in time) is
\* rejected as not checked in; no record is created or modified.
C4_CheckOutRejected ==
  [][\A u \in Subjects :
       (Unmarked(u, today) /\ Arrival(CheckOutOps, u, today))
         => RejectedWith("NotCheckedIn")]_vars

C4_Witness ==
  /\ last.op \in CheckOutOps
  /\ last.result = "NotCheckedIn"
  /\ Query(last.user, last.occ) # {}
  /\ Unmarked(last.user, last.occ)

\* C5: a check-out that arrives after the record is Completed is rejected
\* as already checked out, and check-out time, total hours and status keep
\* the values of the first check-out.
C5_SecondCheckOutRejected ==
  [][\A u \in Subjects :
       (Completed(u, today) /\ Arrival(CheckOutOps, u, today))
         => RejectedWith("AlreadyCheckedOut")]_vars

C5_Witness ==
  /\ last.op \in CheckOutOps
  /\ last.result = "AlreadyCheckedOut"
  /\ Completed(last.user, last.occ)

\* C6: of several concurrent requests for the same transition of a
\* (subject, occasion) at most one succeeds: a check-in succeeds only while
\* no row of the pair has a check-in time, a check-out only on a row that
\* has no check-out time yet.
C6_OneWinner ==
  [][\A rq \in BagToSet(reqs) :
       (Committed(rq) /\ last'.result = "ok")
         => IF rq.op \in CheckOutOps
              THEN \A r \in records : r.id = rq.snap.id => r.check_out_time = NoTime
              ELSE \A r \in Query(rq.user, rq.occ) : r.check_in_time = NoTime]_vars

\* C7: once a record is terminal (session marked, day checked out) no
\* operation overwrites its status, check-in time, check-out time or hours.
Terminal(r) ==
  \/ r.kind = "session"
  \/ r.kind = "day" /\ r.check_in_time # NoTime /\ r.check_out_time # NoTime

C7_NoOverwrite ==
  [][\A r \in records : \A r2 \in records' :
       (Terminal(r) /\ r2.id = r.id)
         => /\ r2.status = r.status
            /\ r2.check_in_time = r.check_in_time
            /\ r2.check_out_time = r.check_out_time
            /\ r2.total_hours = r.total_hours]_vars

\* C8: a record, once created, is never removed.
C8_NeverDeleted ==
  [][\A r \in records : \E r2 \in records' : r2.id = r.id]_vars

\* C9: every record with both a check-in and a check-out time has
\* check-out >= check-in and non-negative total hours.
C9_Monotonic ==
  \A r \in records :
    (r.check_in_time # NoTime /\ r.check_out_time # NoTime)
      => /\ r.check_out_time >= r.check_in_time
         /\ r.total_hours # NoHours => r.total_hours >= 0

\* the threshold the claim names: the subject's own when set, else the default
ClaimedThreshold(u) ==
  IF FaceConfidenceThresholdOf(u) # NoThreshold
    THEN FaceConfidenceThresholdOf(u)
    ELSE FACE_CONFIDENCE_THRESHOLD

\* C10: in verification mode the event is accepted iff the match score is
\* >= the subject's own threshold when set, the global default otherwise.
C10_VerificationThreshold ==
  (last.mode = "verify" /\ last.conf # NoConf)
    => ((last.result # "LowConfidence") <=> (last.conf >= ClaimedThreshold(last.user)))

\* the second-best score of the candidates
SecondOf(prediction_proba) ==
  LET best == CHOOSE i \in DOMAIN prediction_proba :
                prediction_proba[i] = MaxOf(prediction_proba)
  IN MaxOf([i \in DOMAIN prediction_proba |->
              IF i = best THEN 0 ELSE prediction_proba[i]])

\* C11: in identification mode the best candidate is accepted only when its
\* score is >= the threshold and exceeds the second-best score (by the
\* minimum margin, so at least strictly), and is rejected below the threshold.
C11_IdentificationMargin ==
  call.fn = "recognize_face"
    => /\ call.accepted
            => /\ MaxOf(call.prediction_proba) >= call.threshold
               /\ MaxOf(call.prediction_proba) > SecondOf(call.prediction_proba)
       /\ MaxOf(call.prediction_proba) < call.threshold => ~call.accepted

VerificationFailures == {"LowConfidence", "MatcherError"}

DecisionCalls == {"recognize_face", "verify_face_against_user"}

\* C13: for a fixed score, a verification rejected under a threshold is
\* rejected under every higher threshold, and one accepted under a threshold
\* is accepted under every lower threshold.
C13_ThresholdMonotone ==
  (call.fn \in DecisionCalls /\ call.threshold <= call.other)
    => (call.acceptedOther => call.accepted)

C13_Witness ==
  /\ call.fn = "verify_face_against_user"
  /\ call.threshold < call.other
  /\ call.accepted
  /\ ~call.acceptedOther

\* C14: for a session the status is present iff the event time is <= the
\* scheduled start plus the grace period, the boundary instant included, and
\* late for every later time, before and after the scheduled end.
C14_SessionStatus ==
  call.fn = "calculate_attendance_status"
    => /\ call.status = "present"
            <=> call.marked_time <= call.session_start_time + LATE_THRESHOLD_MINUTES
       /\ call.marked_time > call.session_start_time + LATE_THRESHOLD_MINUTES
            => call.status = "late"

C14_Witness ==
  /\ call.fn = "calculate_attendance_status"
  /\ call.marked_time = call.session_start_time + LATE_THRESHOLD_MINUTES
  /\ call.status = "present"

C14_WitnessAfterEnd ==
  /\ call.fn = "calculate_attendance_status"
  /\ call.marked_time > call.session_end_time
  /\ call.status = "late"

\* the category the first-match precedence gives a day: overtime above the
\* overtime threshold plus one hour, half day under four hours, late after
\* start plus grace, early departure before end minus grace, else present
DayCategory(check_in_time, check_out_time) ==
  LET minutes == check_out_time - check_in_time
  IN IF minutes > FullDayMinutes + 60 THEN "overtime"
     ELSE IF minutes < 4 * 60 THEN "half_day"
     ELSE IF check_in_time > WORK_START_TIME + LATE_THRESHOLD_MINUTES THEN "late"
     ELSE IF check_out_time < WORK_END_TIME - EARLY_DEPARTURE_THRESHOLD_MINUTES
       THEN "early_departure"
     ELSE "present"

\* C15: the status stored at check-out is the one the first-match
\* precedence overtime, half day, late, early departure, present gives.
C15_DayPrecedence ==
  call.fn = "face_check_out"
    => call.status = DayCategory(call.check_in_time, call.check_out_time)

\* last-event time minus first-event time, 24h added for an overnight span
SpanMinutes(check_in_time, check_out_time) ==
  IF check_out_time < check_in_time
    THEN check_out_time - check_in_time + 1440
    ELSE check_out_time - check_in_time

\* C16: the hours of a day are check-out minus check-in, with 24h added
\* when the check-out time of day precedes the check-in time of day, and
\* check-out, attendance update and the overtime helper all give this value.
C16_TotalHours ==
  /\ call.fn \in {"face_check_out", "update_attendance"}
       => call.total_hours
            = RoundHours(SpanMinutes(call.check_in_time, call.check_out_time))
  /\ call.fn = "calculate_overtime_hours"
       => call.overtime
            = IF SpanMinutes(call.check_in_time, call.check_out_time) > StandardHours
                THEN SpanMinutes(call.check_in_time, call.check_out_time) - StandardHours
                ELSE 0

\* attendance is no longer being taken for the session, or it is completed
Closed(s) == ~is_active(s) \/ is_completed(s)

\* C17: a marking event that arrives for a closed or deactivated session is
\* rejected as OccasionClosed, and no record is created for such a session.
C17_ClosedRejected ==
  [][/\ \A u \in Users, s \in SessionIds :
          (Closed(s) /\ Arrival(MarkOps, u, s)) => RejectedWith("OccasionClosed")
     /\ \A r \in records' \ records : r.kind = "session" => ~Closed(r.occ)]_vars

\* C18: once the attendance list of a closed session has been produced,
\* every actively enrolled student has exactly one stored record for the
\* session, a real one or a synthesized absent one.
C18_SweepComplete ==
  (call.fn = "get_session_attendance" /\ Closed(call.session_id))
    => \A u \in Enrolled(call.session_id) :
         Cardinality(QuerySession(u, call.session_id)) = 1

\* the response reports an event whose verification outcome was accepted
VerifiedEvent(resp) ==
  /\ resp.result = "ok"
  /\ resp.conf # NoConf
  /\ resp.conf >= FACE_CONFIDENCE_THRESHOLD

\* C19: every step that creates an AttendanceRecord is the handling of an
\* event whose verification outcome was accepted.
C19_CreatedByVerifiedEvent ==
  [][(\E r \in records' : \A q \in records : q.id # r.id) => VerifiedEvent(last')]_vars

\* C20: a check-in is classified with the late threshold of the work
\* schedule it belongs to, so schedules with different thresholds classify
\* the same check-in time by their own values.
C20_PerOccasionThresholds ==
  call.fn = "face_check_in"
    => call.status
         = IF call.check_in_time > WORK_START_TIME + call.schedule.late_threshold
             THEN "late" ELSE "present"

\* C21: two records with the same check-in time and the same check-out
\* time end with the same status and the same total hours, whatever route
\* checked them out and whatever status was stored before.
C21_ClassifierDeterminism ==
  call.fn = "check_out_pair"
    => /\ call.statusA = call.statusB
       /\ call.hoursA = call.hoursB

\* C27: from the same record and at the same check-out time, biometric and
\* manual check-out store the same total hours and the same final status.
C27_CheckOutEquivalence ==
  (/\ call.fn = "check_out_pair"
   /\ call.methodA = "face_recognition" /\ call.methodB = "manual"
   /\ call.beforeA = call.beforeB)
    => /\ call.statusA = call.statusB
       /\ call.hoursA = call.hoursB

\* the statuses that count as attended, and the occasions expected on a
\* day: one per user
Attending == {"present", "late", "overtime", "half_day"}
ExpectedOn(d) == Cardinality(Users)

\* the rate the trends report gives for day d (no entry: nothing reported)
ReportedRate(data, d) ==
  IF d \in DOMAIN data.trends THEN data.trends[d].attendance_rate ELSE 0

\* C22: a computed attendance rate is the number of present, late, overtime
\* and half-day records over the number of expected occasions: per day one
\* occasion per user, per user one occasion per day of the window.
C22_AttendanceRate ==
  [][/\ (call' # call /\ call'.fn = "calculate_attendance_trends" /\ ~call'.cached)
          => ReportedRate(call'.data, today)
               = RatePercent(CountStatus(TrendRecords(today, today), Attending),
                             ExpectedOn(today))
     /\ (call' # call /\ call'.fn = "get_monthly_stats")
          => call'.attendance_rate
               = RatePercent(CountStatus({r \in records : r.kind = "day"
                                                            /\ r.subj = call'.user_id},
                                         Attending), 1)]_vars

\* C23: the result returned for a trends request equals the recomputation
\* of that request over the records as they are when it is answered.
C23_Reproducible ==
  [][(call' # call /\ call'.fn = "calculate_attendance_trends")
       => call'.data = [trends |-> TrendsOf(TrendRecords(today, today)),
                        total_records |-> Cardinality(TrendRecords(today, today))]]_vars

\* C30: a cache entry is valid exactly while its age is below
\* cache_duration, for ages of more than a day as well.
C30_CacheExpiry ==
  call.fn = "_is_cache_valid"
    => (call.valid <=> call.now - call.cached_time < cache_duration)

\* C24: the alerts flag a declining trend for a course whenever its rate
\* in the current period is lower than in the previous one by more than
\* the delta.
C24_DecliningFlagged ==
  (/\ call.fn = "get_attendance_alerts"
   /\ call.analytics.current_rate < call.analytics.previous_rate - call.delta)
    => call.alerts.declining_attendance # {}

\* the longest run of consecutive calendar days in a set of dates
LongestRun(dates) ==
  CHOOSE n \in 0 .. Cardinality(dates) :
    /\ n > 0 => \E a \in dates : \A k \in 0 .. n - 1 : a + k \in dates
    /\ \A a \in dates : \E k \in 0 .. n : a + k \notin dates

\* C25: a user is flagged for consecutive absence iff the dates of their
\* absent records contain a run of at least 3 consecutive calendar days,
\* and the reported length is the longest such run.
C25_ConsecutiveAbsence ==
  call.fn = "analyze_absenteeism_patterns"
    => LET dates == {call.sorted_dates[i] : i \in DOMAIN call.sorted_dates}
       IN /\ call.flagged <=> LongestRun(dates) >= 3
          /\ call.flagged => call.max_consecutive_days = LongestRun(dates)

\* C26: in identification mode the current user is checked in only when
\* the recognised identity is the current user.
C26_IdentifiedIsCurrentUser ==
  (call.fn = "face_check_in_identify" /\ call.checked_in)
    => call.name = call.current_user

\* C28: the summary of a session has 0 <= absent_students,
\* present_students <= total_students, 0 <= attendance_rate <= 100, and as
\* many counted records as listed students that are not absent at most.
C28_SummaryBounds ==
  call.fn = "get_session_attendance"
    => /\ call.absent_students >= 0
       /\ call.present_students <= call.total_students
       /\ call.attendance_rate >= 0 /\ call.attendance_rate <= 10000
       /\ call.present_students <= Cardinality(call.students)

\* the number of times in a history that lie in the window (lo, hi]
CountIn(times, lo, hi) ==
  LET Inside(ts) == ts > lo /\ ts <= hi IN Len(SelectSeq(times, Inside))

\* no window of window_seconds up to now holds more than max_requests
\* admissions of one client
WindowOK(history, now) ==
  \A c \in Clients, t \in 0 .. now :
    CountIn(history[c], t - window_seconds, t) <= max_requests

\* the timestamps a store counts against client c at time now
Kept(store, c, now) ==
  IF c \in DOMAIN store THEN After(store[c], now - window_seconds) ELSE << >>

\* C29: in every window of window_seconds a limiter admits at most
\* max_requests requests of a client, and what it counts against a client
\* changes only by an admitted request of that client: a rejected request
\* is not counted and no request touches another client's count.
C29_RateLimit ==
  [][/\ WindowOK(admitted', current_time')
     /\ WindowOK(allowed', current_time')
     /\ \A d \in Clients :
          /\ Kept(requests', d, current_time) # Kept(requests, d, current_time)
               => call' = [fn |-> "dispatch", client |-> d,
                           at |-> current_time, status |-> 200]
          /\ Kept(limiter', d, current_time) # Kept(limiter, d, current_time)
               => call' = [fn |-> "is_allowed", client |-> d,
                           at |-> current_time, status |-> 200]]_vars

C29_Witness ==
  /\ call.fn = "dispatch"
  /\ call.status = 429
  /\ call.at = current_time
  /\ CountIn(admitted[call.client], current_time - window_seconds, current_time)
       = max_requests
  /\ \E d \in Clients \ {call.client} :
       CountIn(admitted[d], current_time - window_seconds, current_time) > 0
====
